---- MODULE Spec2Model ----
(***************************************************************************)
(* PIIDetector (app/services/pii_detector.py): the rule list, the rule     *)
(* cache, the analyzer (recognizer registry), the rules file and the       *)
(* detector lock, with the operations that read and write them, run by     *)
(* concurrent request threads.                                             *)
(*                                                                         *)
(* Abstractions.  A regular expression is a token; a text is the set of    *)
(* tokens that have a match in it (pattern tokens and predefined entity    *)
(* types found by the statistical recognizer).  The token "(" is a pattern *)
(* that does not compile.  A rule dictionary is a record; `complete` says  *)
(* that the keys id, name, type and pattern are present; `obj` is the      *)
(* Python type of the element ("dict", "PIIRule", "str").                  *)
(***************************************************************************)
EXTENDS Integers, Sequences, FiniteSets, TLC

VARIABLES
    rules,          \* self.rules
    rules_cache,    \* self.rules_cache
    analyzer,       \* self.analyzer (None, or the engine with its registry)
    anonymizer,     \* self.anonymizer is set
    nlp_engine,     \* self.nlp_engine is set
    initialized,    \* self._initialized
    lock,           \* self._lock: the thread holding it, or NoThread
    file,           \* settings.PII_RULES_FILE on disk
    last_update,    \* served one at a time: the update_rule call that ended last, if no
                    \* other call ended since
    serial,         \* the requests are served one at a time
    compiled_regex_cache,   \* dict: self._compiled_regex_cache, the patterns compiled;
                            \* lru: the results memoised by lru_cache on _get_compiled_regex,
                            \* the least recently used first
    pc,             \* per thread: its position
    loc             \* per thread: the locals of the call in progress

vars == <<rules, rules_cache, analyzer, anonymizer, nlp_engine, initialized,
          lock, file, last_update, serial, compiled_regex_cache, pc, loc>>

----------------------------------------------------------------------------
(* Bounds *)

NumThreads == 2

Threads == 1..NumThreads

NoThread == 0

----------------------------------------------------------------------------
(* Rules, texts, inputs *)

MkRule(id, name, pattern, enabled, complete, obj) ==
    [id |-> id, name |-> name, pattern |-> pattern, enabled |-> enabled,
     complete |-> complete, obj |-> obj]

RuleA == MkRule("r1", "A", "pa", TRUE, TRUE, "dict")

RuleAoff == MkRule("r1", "A", "pa", FALSE, TRUE, "dict")

RuleB == MkRule("r2", "B", "pb", TRUE, TRUE, "dict")

RuleBad == MkRule("r3", "C", "(", TRUE, TRUE, "dict")

\* a dictionary without the key "pattern"
RuleIncomplete == MkRule("r4", "D", "", TRUE, FALSE, "dict")

\* a temporary rule given to preview_config
TempRule == MkRule("temp", "T", "pa", TRUE, TRUE, "dict")

\* PIIRule.from_dict: a PIIRule object, not a dict
FromDict(d) == [d EXCEPT !.obj = "PIIRule"]

\* a list element that is not a dictionary
Junk == MkRule("", "", "", TRUE, FALSE, "str")

PredefinedEntities ==
    {"PERSON", "EMAIL_ADDRESS", "PHONE_NUMBER", "CREDIT_CARD", "IBAN_CODE",
     "LOCATION", "PASSPORT", "DRIVER_LICENSE", "TAX_ID", "BANK_ACCOUNT",
     "ID_CARD", "MAC_ADDRESS", "IP_ADDRESS", "NRP", "MEDICAL_LICENSE"}

Texts == {{"pa"}, {"pb", "EMAIL_ADDRESS"}}

\* the exception the statistical recognizer raises on a text it fails on
RecognizerError == "nlp_error"

\* a text matched by rule A on which the statistical recognizer fails
FailingTexts == {{"pa", RecognizerError}}

StatisticalRecognizerFails(text) == RecognizerError \in text

\* update_rules batches
Batches == {<<>>, <<RuleIncomplete>>, <<RuleA>>, <<RuleAoff, RuleB>>, <<RuleBad, RuleB>>}

\* the batches of the runs about the rule store: also two rules with one id
StoreBatches == Batches \cup {<<RuleA, RuleAoff>>}

\* the batches of the concurrent runs
FewBatches == {<<RuleIncomplete>>, <<RuleAoff, RuleB>>}

\* custom_rules of preview_config
PreviewInputs == {<<>>, <<TempRule>>, <<TempRule, Junk>>}

PreviewTexts == {{"pa"}}

\* the top-level keys of the JSON object update_rules writes
RulesOnlyKeys == {"rules"}

\* the top-level keys of the JSON object save_rules_to_file writes
WrappedKeys == {"version", "last_updated", "rules"}

\* the rules file: missing, holding JSON with a rule list ("ok"), holding JSON
\* of another shape ("badshape"), or not holding JSON ("corrupt"); `keys` are
\* the top-level keys when the JSON is an object, none when it is a bare array;
\* `rules` are the rule dicts in it, wherever they are
FileWith(kind, rs, keys) == [kind |-> kind, rules |-> rs, keys |-> keys]

MkFile(kind, rs) == FileWith(kind, rs, IF kind = "ok" THEN RulesOnlyKeys ELSE {})

InitialFiles == {MkFile("missing", <<>>), MkFile("ok", <<RuleA, RuleB>>)}

\* the files of the runs about the rule store: also a bare array, the wrapped
\* object, and JSON that is neither a list nor an object with "rules"
StoreFiles ==
    InitialFiles \cup {FileWith("ok", <<RuleA, RuleB>>, {}),
                       FileWith("ok", <<RuleAoff, RuleB>>, WrappedKeys),
                       FileWith("badshape", <<RuleA>>, {"version", "items"})}

Range(s) == {s[i] : i \in DOMAIN s}

IsDict(r) == r.obj = "dict"

AllDicts(rs) == \A i \in DOMAIN rs : IsDict(rs[i])

IsEnabled(r) == r.enabled

IsComplete(r) == r.complete

Compiles(pattern) == pattern # "("

----------------------------------------------------------------------------
(* The rule cache: a dict language -> list of rules (load_rules), or a     *)
(* dict id -> rule (update_rules).  An empty dict has no shape.            *)

MkCache(shape, rs) == [shape |-> IF rs = <<>> THEN "empty" ELSE shape, rules |-> rs]

EmptyCache == MkCache("empty", <<>>)

\* load_rules: only the enabled rules are cached (all rules have language "en")
LangCache(rs) == MkCache("lang", SelectSeq(rs, IsEnabled))

\* update_rules: {rule['id']: rule for rule in rs}; a later rule replaces an
\* earlier one with the same id, at the earlier one's place
IdCache(rs) ==
    LET LastOfId(i) == \A j \in DOMAIN rs : j > i => rs[j].id # rs[i].id
        FirstOfId(i) == \A j \in DOMAIN rs : j < i => rs[j].id # rs[i].id
        LastWith(id) == CHOOSE j \in DOMAIN rs : rs[j].id = id /\ LastOfId(j)
        keys == SelectSeq([i \in DOMAIN rs |-> i], FirstOfId)
    IN  MkCache("id", [k \in DOMAIN keys |-> rs[LastWith(rs[keys[k]].id)]])

----------------------------------------------------------------------------
(* The analyzer: the registry holds the predefined recognizers and one     *)
(* CustomRuleRecognizer per enabled rule of the rule list it was built     *)
(* from.                                                                   *)

NoAnalyzer == [set |-> FALSE, rules |-> <<>>]

MkAnalyzer(rs) == [set |-> TRUE, rules |-> rs]

Recognizers(an) == SelectSeq(an.rules, IsEnabled)

\* _get_all_supported_entities: predefined types and the names of the enabled rules
SupportedEntities(rs) ==
    PredefinedEntities \cup {rs[i].name : i \in {j \in DOMAIN rs : rs[j].enabled}}

\* CustomRuleRecognizer.analyze: re.finditer raises on a pattern that does not
\* compile, the exception is caught and the recognizer reports nothing
RecognizerMatches(r, text) == Compiles(r.pattern) /\ r.pattern \in text

\* AnalyzerEngine.analyze(text, entities): the entity types reported
Analyze(an, entities, text) ==
    LET recs == Recognizers(an)
        custom == {recs[i].name : i \in {j \in DOMAIN recs : RecognizerMatches(recs[j], text)}}
    IN  (custom \cup (text \cap PredefinedEntities)) \cap entities

\* _is_custom_entity: any(rule.get('name') == e for rule in self.rules); "raise"
\* when an element without .get is reached before a match
IsCustomEntity(rs, e) ==
    LET hits == {i \in DOMAIN rs : ~IsDict(rs[i]) \/ rs[i].name = e}
        first == CHOOSE i \in hits : \A j \in hits : i <= j
    IN  IF hits = {} THEN "no" ELSE IF IsDict(rs[first]) THEN "yes" ELSE "raise"

----------------------------------------------------------------------------
(* Thread locals *)

NoResult == [status |-> "none", err |-> "", value |-> "", entities |-> {},
             categories |-> {}, is_safe |-> FALSE, rules |-> <<>>]

\* the "category" key of a rule dictionary: rule A is a financial rule, the
\* others have the default that update_rules sets
RuleCategory(r) == IF r.name = "A" THEN "financial" ELSE "general"

\* the table of _get_entity_category
StatisticalCategories ==
    [e \in PredefinedEntities |->
        CASE e = "PERSON" -> "personal"
          [] e \in {"EMAIL_ADDRESS", "PHONE_NUMBER"} -> "contact"
          [] e \in {"CREDIT_CARD", "IBAN_CODE", "BANK_ACCOUNT", "TAX_ID"} -> "financial"
          [] e = "LOCATION" -> "location"
          [] e \in {"PASSPORT", "DRIVER_LICENSE", "ID_CARD"} -> "id"
          [] e \in {"MAC_ADDRESS", "IP_ADDRESS"} -> "technical"
          [] OTHER -> "medical"]

\* _get_entity_category: categories.get(entity_type, "other")
GetEntityCategory(entity_type) ==
    IF entity_type \in DOMAIN StatisticalCategories THEN StatisticalCategories[entity_type] ELSE "other"

\* a detection result: the entities with their categories, is_safe, and the
\* rule list is_custom was read from
Ok(entities, rs) == [NoResult EXCEPT !.status = "ok", !.value = "result",
                     !.entities = entities,
                     !.categories = {<<e, GetEntityCategory(e)>> : e \in entities},
                     !.is_safe = (entities = {}), !.rules = rs]

\* a plain return value
Returned(value) == [NoResult EXCEPT !.status = "ok", !.value = value]

Raised(err) == [NoResult EXCEPT !.status = "error", !.err = err]

\* rule.get on an element of self.rules that is a PIIRule object
NoGet == "AttributeError: 'PIIRule' object has no attribute 'get'"

\* a method call on self.analyzer or self.anonymizer that is None
NoneCall == "AttributeError: 'NoneType' object has no attribute"

NoSnapshot == [taken |-> FALSE, rules |-> <<>>, cache |-> EmptyCache,
               analyzer |-> NoAnalyzer, file |-> MkFile("missing", <<>>),
               initialized |-> FALSE]

Snapshot == [taken |-> TRUE, rules |-> rules, cache |-> rules_cache,
             analyzer |-> analyzer, file |-> file, initialized |-> initialized]

NoUpdate == [id |-> "", enabled |-> FALSE, status |-> "none", was_enabled |-> FALSE]

IdleLoc == [op |-> "none", text |-> {}, batch |-> <<>>, valid |-> <<>>,
            persist |-> "none", orig_rules |-> <<>>, orig_an |-> NoAnalyzer,
            d_rules |-> <<>>, d_an |-> NoAnalyzer, res |-> NoResult,
            pre |-> NoSnapshot, prev |-> NoUpdate, arg |-> <<>>]

OnlyActive(t) == \A u \in Threads \ {t} : pc[u] = "idle"

\* a with self._lock block that leaves the lock taken when its body raises
HeldAfterRaise(t, res) == IF res.status = "error" THEN t ELSE NoThread

\* the with self._lock block of thread t is left with outcome res, by a return
\* or by an exception: the lock is released
Released(t, res) == NoThread

\* a call may start: the thread is idle, and alone when served one at a time
CanCall(t) == pc[t] = "idle" /\ (serial => OnlyActive(t))

\* the committed state at the call, recorded when served one at a time
Pre(t) == IF serial THEN Snapshot ELSE NoSnapshot

StartLoc(t, op) == [IdleLoc EXCEPT !.op = op, !.pre = Pre(t)]

Goto(t, where) == pc' = [pc EXCEPT ![t] = where]

\* where a detection that ended goes: back into preview_config, or to the caller
AfterDetect(t) == IF loc[t].op = "preview" THEN "pv_finally" ELSE "ret"

\* a detector with no call in progress that has not loaded its rules, with the
\* given compiled patterns
ConstructedWith(compiled) ==
    /\ rules = <<>>
    /\ rules_cache = EmptyCache
    /\ analyzer = NoAnalyzer
    /\ anonymizer = FALSE
    /\ nlp_engine = FALSE
    /\ initialized = FALSE
    /\ lock = NoThread
    /\ compiled_regex_cache = compiled
    /\ last_update = NoUpdate
    /\ pc = [t \in Threads |-> "idle"]
    /\ loc = [t \in Threads |-> IdleLoc]

\* the detector as __init__ leaves it, no call in progress
Constructed == ConstructedWith([dict |-> {}, lru |-> <<>>])

Init ==
    /\ Constructed
    /\ file \in InitialFiles
    /\ serial \in BOOLEAN

\* the threads run concurrently
InitConcurrent == Init /\ ~serial

\* the calls are served one at a time
InitSerial == Init /\ serial

----------------------------------------------------------------------------
(* initialize: run by reload, and by detect_pii when not initialized *)

\* a load_rules that takes the rules of the file whatever its shape
LoadedRulesAnyShape(f) == f.rules

\* load_rules, what it leaves in self.rules
LoadedRules(f) == IF f.kind = "ok" THEN f.rules ELSE <<>>

\* load_rules, what it leaves in self.rules_cache: a missing file and a failed
\* json.load leave the cache as it was; any JSON read gives a new cache by
\* language of the enabled rules
LoadedCache(f, cache) ==
    CASE f.kind = "ok" -> LangCache(f.rules)
      [] f.kind = "badshape" -> EmptyCache
      [] OTHER -> cache

\* initialize, first part: the NLP engine, then load_rules
InitializeLoad(t) ==
    /\ pc[t] = "init_load"
    /\ nlp_engine' = TRUE
    /\ rules' = LoadedRules(file)
    /\ rules_cache' = LoadedCache(file, rules_cache)
    /\ Goto(t, "init_build")
    /\ UNCHANGED <<analyzer, anonymizer, initialized, lock, file, last_update, loc, serial, compiled_regex_cache>>

\* initialize, second part: the registry from self.rules, the analyzer, the
\* anonymizer, the flag.  _add_custom_recognizers raises on an element of
\* self.rules that is not a dict, and initialize raises with it.
InitializeBuild(t) ==
    /\ pc[t] = "init_build"
    /\ IF AllDicts(rules)
       THEN /\ analyzer' = MkAnalyzer(rules)
            /\ anonymizer' = TRUE
            /\ initialized' = TRUE
            /\ IF loc[t].op = "reload"
               THEN /\ Goto(t, "ret")
                    /\ loc' = [loc EXCEPT ![t].res = Returned("True")]
               ELSE /\ Goto(t, "d_read")
                    /\ UNCHANGED loc
       ELSE /\ Goto(t, IF loc[t].op = "reload" THEN "ret" ELSE AfterDetect(t))
            /\ loc' = [loc EXCEPT ![t].res =
                            IF loc[t].op = "reload" THEN Returned("False")
                            ELSE Raised(NoGet)]
            /\ UNCHANGED <<analyzer, anonymizer, initialized>>
    /\ UNCHANGED <<rules, rules_cache, nlp_engine, lock, file, last_update, serial, compiled_regex_cache>>

\* load_rules called on its own: the rule list and the cache from the file;
\* the analyzer is not touched.  Returns None, whatever the file.
LoadRules(t) ==
    /\ CanCall(t)
    /\ rules' = LoadedRules(file)
    /\ rules_cache' = LoadedCache(file, rules_cache)
    /\ loc' = [loc EXCEPT ![t] = [StartLoc(t, "load_rules") EXCEPT !.res = Returned("None")]]
    /\ Goto(t, "ret")
    /\ UNCHANGED <<analyzer, anonymizer, nlp_engine, initialized, lock, file,
                   last_update, serial, compiled_regex_cache>>

\* reload: clears the flag and initializes; returns False when initialize raises
CallReload(t) ==
    /\ CanCall(t)
    /\ initialized' = FALSE
    /\ loc' = [loc EXCEPT ![t] = StartLoc(t, "reload")]
    /\ Goto(t, "init_load")
    /\ UNCHANGED <<rules, rules_cache, analyzer, anonymizer, nlp_engine, lock, file,
                   last_update, serial, compiled_regex_cache>>

----------------------------------------------------------------------------
(* detect_pii *)

\* where the body of detect_pii starts
DetectEntry == IF initialized THEN "d_read" ELSE "init_load"

CallDetect(t, text) ==
    /\ CanCall(t)
    /\ loc' = [loc EXCEPT ![t] = [StartLoc(t, "detect") EXCEPT !.text = text,
                                                              !.prev = last_update]]
    /\ Goto(t, DetectEntry)
    /\ UNCHANGED <<rules, rules_cache, analyzer, anonymizer, nlp_engine, initialized,
                   lock, file, last_update, serial, compiled_regex_cache>>

\* supported_entities = self._get_all_supported_entities(): reads self.rules
DetectReadRules(t) ==
    /\ pc[t] = "d_read"
    /\ IF AllDicts(rules)
       THEN /\ loc' = [loc EXCEPT ![t].d_rules = rules]
            /\ Goto(t, "d_analyze")
       ELSE /\ loc' = [loc EXCEPT ![t].res = Raised(NoGet)]
            /\ Goto(t, AfterDetect(t))
    /\ UNCHANGED <<rules, rules_cache, analyzer, anonymizer, nlp_engine, initialized,
                   lock, file, last_update, serial, compiled_regex_cache>>

\* self.analyzer.analyze(...) is entered: reads self.analyzer
DetectStartScan(t) ==
    /\ pc[t] = "d_analyze"
    /\ IF analyzer.set
       THEN /\ loc' = [loc EXCEPT ![t].d_an = analyzer]
            /\ Goto(t, "scanning")
       ELSE /\ loc' = [loc EXCEPT ![t].res = Raised(NoneCall)]
            /\ Goto(t, AfterDetect(t))
    /\ UNCHANGED <<rules, rules_cache, analyzer, anonymizer, nlp_engine, initialized,
                   lock, file, last_update, serial, compiled_regex_cache>>

\* the result of detect_pii once the scan has returned `found`: the anonymizer
\* is used, then self.rules is read again for is_custom of every entity
DetectResult(found, rs) ==
    IF \E e \in found : IsCustomEntity(rs, e) = "raise"
    THEN Raised(NoGet)
    ELSE Ok(found, IF found = {} THEN <<>> ELSE rs)

\* analyzer.analyze raises what a recognizer raises: the custom recognizers
\* catch their own exceptions, the statistical recognizer does not; detect_pii
\* logs the exception and raises it again
DetectFinishScan(t) ==
    /\ pc[t] = "scanning"
    /\ LET found == Analyze(loc[t].d_an, SupportedEntities(loc[t].d_rules), loc[t].text)
       IN  loc' = [loc EXCEPT ![t].res =
                       IF StatisticalRecognizerFails(loc[t].text)
                       THEN Raised(RecognizerError)
                       ELSE IF anonymizer THEN DetectResult(found, rules)
                       ELSE Raised(NoneCall)]
    /\ Goto(t, AfterDetect(t))
    /\ UNCHANGED <<rules, rules_cache, analyzer, anonymizer, nlp_engine, initialized,
                   lock, file, last_update, serial, compiled_regex_cache>>

----------------------------------------------------------------------------
(* update_rules *)

\* the rules that pass the checks of update_rules: a dict with the keys id,
\* name, type and pattern.  The pattern is not compiled.
ValidRules(batch) ==
    LET Passes(r) == IsDict(r) /\ IsComplete(r)
    IN  SelectSeq(batch, Passes)

\* the snapshot for the rollback, then the validation; "No valid rules provided"
\* goes to the except clause without the lock having been taken
CallUpdateRules(t, batch) ==
    /\ CanCall(t)
    /\ loc' = [loc EXCEPT ![t] = [StartLoc(t, "update_rules") EXCEPT
                                     !.batch = batch,
                                     !.valid = ValidRules(batch),
                                     !.orig_rules = rules,
                                     !.orig_an = analyzer]]
    /\ Goto(t, IF ValidRules(batch) = <<>> THEN "ur_rollback" ELSE "ur_lock")
    /\ UNCHANGED <<rules, rules_cache, analyzer, anonymizer, nlp_engine, initialized,
                   lock, file, last_update, serial, compiled_regex_cache>>

\* with self._lock: self.rules = valid_rules
UpdateRulesSwap(t) ==
    /\ pc[t] = "ur_lock"
    /\ lock = NoThread
    /\ lock' = t
    /\ rules' = loc[t].valid
    /\ Goto(t, "ur_write")
    /\ UNCHANGED <<rules_cache, analyzer, anonymizer, nlp_engine, initialized, file,
                   last_update, loc, serial, compiled_regex_cache>>

\* open(PII_RULES_FILE, 'w') and json.dump: the file is written, or open fails
\* and the file is as it was, or the dump fails after open has truncated it
PersistOutcomes == {"ok", "open_fails", "write_fails"}

Persisted(f, rs, outcome) ==
    CASE outcome = "ok" -> MkFile("ok", rs)
      [] outcome = "open_fails" -> f
      [] outcome = "write_fails" -> MkFile("corrupt", <<>>)

UpdateRulesPersist(t) ==
    /\ pc[t] = "ur_write"
    /\ \E outcome \in PersistOutcomes :
          /\ file' = Persisted(file, loc[t].valid, outcome)
          /\ loc' = [loc EXCEPT ![t].persist = outcome]
          /\ IF outcome = "ok"
             THEN Goto(t, "ur_build") /\ UNCHANGED lock
             ELSE Goto(t, "ur_rollback") /\ lock' = Released(t, Raised("OSError"))
    /\ UNCHANGED <<rules, rules_cache, analyzer, anonymizer, nlp_engine, initialized,
                   last_update, serial, compiled_regex_cache>>

\* the registry from self.rules, and the new analyzer
UpdateRulesBuild(t) ==
    /\ pc[t] = "ur_build"
    /\ IF AllDicts(rules)
       THEN /\ analyzer' = MkAnalyzer(rules)
            /\ Goto(t, "ur_cache")
            /\ UNCHANGED lock
       ELSE /\ Goto(t, "ur_rollback")
            /\ lock' = Released(t, Raised(NoGet))
            /\ UNCHANGED analyzer
    /\ UNCHANGED <<rules, rules_cache, anonymizer, nlp_engine, initialized, file,
                   last_update, loc, serial, compiled_regex_cache>>

\* the rule cache by id, the lock released, True returned
UpdateRulesCache(t) ==
    /\ pc[t] = "ur_cache"
    /\ rules_cache' = IdCache(loc[t].valid)
    /\ lock' = Released(t, Returned("True"))
    /\ loc' = [loc EXCEPT ![t].res = Returned("True")]
    /\ Goto(t, "ret")
    /\ UNCHANGED <<rules, analyzer, anonymizer, nlp_engine, initialized, file,
                   last_update, serial, compiled_regex_cache>>

\* the cache the except clause leaves: rule['id'] raises on a PIIRule object
\* after self.rules and self.analyzer have been put back
RolledBackCache(orig, cache) == IF AllDicts(orig) THEN IdCache(orig) ELSE cache

\* the except clause, run without the lock
UpdateRulesRollback(t) ==
    /\ pc[t] = "ur_rollback"
    /\ rules' = loc[t].orig_rules
    /\ analyzer' = loc[t].orig_an
    /\ rules_cache' = RolledBackCache(loc[t].orig_rules, rules_cache)
    /\ loc' = [loc EXCEPT ![t].res =
                   IF AllDicts(loc[t].orig_rules) THEN Raised("RuntimeError")
                   ELSE Raised("TypeError: 'PIIRule' object is not subscriptable")]
    /\ Goto(t, "ret")
    /\ UNCHANGED <<anonymizer, nlp_engine, initialized, lock, file, last_update, serial, compiled_regex_cache>>

----------------------------------------------------------------------------
(* preview_config *)

\* a detect_pii that takes masking_style
DetectPiiParamsWithStyle == {"text", "language", "masking_style"}

\* the parameters of detect_pii
DetectPiiParams == {"text", "language"}

\* the keyword arguments preview_config calls detect_pii with
PreviewKwargs == {"text", "language", "masking_style"}

CallPreview(t, text, custom) ==
    /\ CanCall(t)
    /\ loc' = [loc EXCEPT ![t] = [StartLoc(t, "preview") EXCEPT !.text = text,
                                                               !.batch = custom]]
    /\ Goto(t, "pv_lock")
    /\ UNCHANGED <<rules, rules_cache, analyzer, anonymizer, nlp_engine, initialized,
                   lock, file, last_update, serial, compiled_regex_cache>>

\* with self._lock: original_rules = self.rules.copy()
PreviewAcquire(t) ==
    /\ pc[t] = "pv_lock"
    /\ lock = NoThread
    /\ lock' = t
    /\ loc' = [loc EXCEPT ![t].orig_rules = rules]
    /\ Goto(t, "pv_add")
    /\ UNCHANGED <<rules, rules_cache, analyzer, anonymizer, nlp_engine, initialized,
                   file, last_update, serial, compiled_regex_cache>>

\* _add_temp_rules on a list: the elements before the first one that is not a
\* dict are appended to self.rules as PIIRule objects
RECURSIVE TempPrefix(_)
TempPrefix(custom) ==
    IF custom = <<>> \/ ~IsDict(Head(custom)) THEN <<>>
    ELSE <<FromDict(Head(custom))>> \o TempPrefix(Tail(custom))

AddTempRules(rs, custom) == rs \o TempPrefix(custom)

\* _add_temp_rules raises on an element that is not a dict
AddTempRaises(custom) == \E i \in DOMAIN custom : ~IsDict(custom[i])

\* the temporary rules are appended to self.rules, then detect_pii is called
\* with masking_style
PreviewAddAndCall(t) ==
    /\ pc[t] = "pv_add"
    /\ rules' = AddTempRules(rules, loc[t].batch)
    /\ IF AddTempRaises(loc[t].batch)
       THEN /\ loc' = [loc EXCEPT ![t].res =
                           Raised("TypeError: 'str' object does not support item assignment")]
            /\ Goto(t, "pv_finally")
       ELSE IF PreviewKwargs \subseteq DetectPiiParams
       THEN /\ Goto(t, DetectEntry)
            /\ UNCHANGED loc
       ELSE /\ loc' = [loc EXCEPT ![t].res =
                           Raised("TypeError: detect_pii() got an unexpected keyword argument")]
            /\ Goto(t, "pv_finally")
    /\ UNCHANGED <<rules_cache, analyzer, anonymizer, nlp_engine, initialized, lock, file,
                   last_update, serial, compiled_regex_cache>>

\* a finally clause that leaves self.rules as it is
PreviewNotRestored(orig, current) == current

\* finally: self.rules = original_rules
PreviewRestored(orig, current) == orig

\* the finally clause, then the lock is released
PreviewFinally(t) ==
    /\ pc[t] = "pv_finally"
    /\ rules' = PreviewRestored(loc[t].orig_rules, rules)
    /\ lock' = Released(t, loc[t].res)
    /\ compiled_regex_cache' = [compiled_regex_cache EXCEPT !.dict = {}]
    /\ Goto(t, "ret")
    /\ UNCHANGED <<rules_cache, analyzer, anonymizer, nlp_engine, initialized, file,
                   last_update, loc, serial>>

----------------------------------------------------------------------------
(* get_rules *)

\* returns self.rules
GetRules(t) ==
    /\ CanCall(t)
    /\ loc' = [loc EXCEPT ![t] = [StartLoc(t, "get_rules") EXCEPT
                                     !.res = [Returned("rules") EXCEPT !.rules = rules]]]
    /\ Goto(t, "ret")
    /\ UNCHANGED <<rules, rules_cache, analyzer, anonymizer, nlp_engine, initialized,
                   lock, file, last_update, serial, compiled_regex_cache>>

----------------------------------------------------------------------------
(* update_rule *)

\* the ids update_rule is called with ("r9" is the id of no rule)
UpdateIds == {"r1", "r2", "r9"}

\* how the search of update_rule through self.rules_cache.items() ends: a cache
\* by id holds one rule dict per key, and iterating a dict yields its keys, so
\* rule.get is called on a str
UpdateRuleSearch(cache, id) ==
    CASE cache.shape = "empty" -> "not_found"
      [] cache.shape = "id" -> "raise"
      [] cache.shape = "lang" ->
            IF \E i \in DOMAIN cache.rules : cache.rules[i].id = id
            THEN "found" ELSE "not_found"

\* rule[field] = value on the rule dict found
PatchRule(r, id, enabled) ==
    IF IsDict(r) /\ r.id = id THEN [r EXCEPT !.enabled = enabled] ELSE r

\* the dicts of the cache by language are the dicts of self.rules
PatchAll(rs, id, enabled) == [i \in DOMAIN rs |-> PatchRule(rs[i], id, enabled)]

\* how update_rule ends once the rule is found and patched:
\* self._save_rules_to_file() calls save_rules_to_file without its argument
SaveRulesToFile == Raised("TypeError: save_rules_to_file() missing 1 required positional argument: 'rules'")

UpdateRuleResult(search) ==
    CASE search = "not_found" -> Returned("None")
      [] search = "raise" -> Raised("AttributeError: 'str' object has no attribute 'get'")
      [] search = "found" -> SaveRulesToFile

\* the call as its caller knows it: the id, the value given for enabled, how the
\* search ended, and whether the rule list held the rule enabled at the call
UpdateRecord(id, enabled, search) ==
    [id |-> id, enabled |-> enabled, status |-> search,
     was_enabled |-> \E i \in DOMAIN rules :
                        IsDict(rules[i]) /\ rules[i].id = id /\ IsEnabled(rules[i])]

UpdateRule(t, id, enabled) ==
    /\ CanCall(t)
    /\ LET search == UpdateRuleSearch(rules_cache, id)
           result == UpdateRuleResult(search)
       IN  /\ IF search = "found"
              THEN /\ rules' = PatchAll(rules, id, enabled)
                   /\ rules_cache' = [rules_cache EXCEPT
                                         !.rules = PatchAll(rules_cache.rules, id, enabled)]
              ELSE UNCHANGED <<rules, rules_cache>>
           /\ loc' = [loc EXCEPT ![t] = [StartLoc(t, "update_rule") EXCEPT
                                            !.res = result,
                                            !.prev = UpdateRecord(id, enabled, search)]]
           /\ last_update' = IF serial
                              THEN UpdateRecord(id, enabled, search)
                              ELSE NoUpdate
    /\ Goto(t, "ret")
    /\ UNCHANGED <<analyzer, anonymizer, nlp_engine, initialized, lock, file, serial, compiled_regex_cache>>

----------------------------------------------------------------------------
(* save_rules_to_file, initialize_default_rules, bulk_import_rules *)

\* what save_rules_to_file leaves on disk: the object with version,
\* last_updated and rules
PersistedWrapped(f, rs, outcome) ==
    IF outcome = "ok" THEN FileWith("ok", rs, WrappedKeys) ELSE Persisted(f, rs, outcome)

\* save_rules_to_file(rules): writes the file, True; any exception is logged, False
CallSaveRulesToFile(t, rs) ==
    /\ CanCall(t)
    /\ \E outcome \in PersistOutcomes :
          /\ file' = PersistedWrapped(file, rs, outcome)
          /\ loc' = [loc EXCEPT ![t] = [StartLoc(t, "save_rules_to_file") EXCEPT
                                           !.batch = rs,
                                           !.persist = outcome,
                                           !.res = Returned(IF outcome = "ok" THEN "True"
                                                            ELSE "False")]]
    /\ Goto(t, "ret")
    /\ UNCHANGED <<rules, rules_cache, analyzer, anonymizer, nlp_engine, initialized,
                   lock, last_update, serial, compiled_regex_cache>>

\* initialize_default_rules: writes {"rules": []}; any exception is logged
InitializeDefaultRules(t) ==
    /\ CanCall(t)
    /\ \E outcome \in PersistOutcomes :
          /\ file' = Persisted(file, <<>>, outcome)
          /\ loc' = [loc EXCEPT ![t] = [StartLoc(t, "initialize_default_rules") EXCEPT
                                           !.persist = outcome,
                                           !.res = Returned("None")]]
    /\ Goto(t, "ret")
    /\ UNCHANGED <<rules, rules_cache, analyzer, anonymizer, nlp_engine, initialized,
                   lock, last_update, serial, compiled_regex_cache>>

\* the attributes of the detector that __init__ sets
DetectorAttributes ==
    {"supported_languages", "rules", "rules_cache", "_lock", "_compiled_regex_cache",
     "_initialized", "nlp_engine", "analyzer", "anonymizer"}

\* a validate_rule that finds self.supported_categories and
\* self.country_code_mapping and accepts the rules with the required fields
BulkValidRulesAccepting(batch) ==
    SelectSeq(batch, LAMBDA r : IsDict(r) /\ IsComplete(r))

\* validate_rule inside the try of bulk_import_rules: a rule without the
\* required fields is not valid; for the others self.supported_categories is
\* read, an AttributeError when the detector has no such attribute, and the
\* rule is skipped
BulkValidRules(batch) ==
    LET Passes(r) == /\ IsDict(r)
                     /\ IsComplete(r)
                     /\ {"supported_categories", "country_code_mapping"} \subseteq DetectorAttributes
    IN  SelectSeq(batch, Passes)

\* bulk_import_rules: "No valid rules to import" is raised before anything is
\* written.  With valid rules the file is written under the lock, and a
\* failure of open or json.dump is raised; then self.rules is assigned and
\* the cache is cleared and filled by language, a KeyError when the cache is
\* the plain dict by id that update_rules leaves.
BulkImportRules(t, batch) ==
    /\ CanCall(t)
    /\ BulkValidRules(batch) # <<>> => lock = NoThread
    /\ LET valid == BulkValidRules(batch)
           start == [StartLoc(t, "bulk_import_rules") EXCEPT !.batch = batch, !.valid = valid]
       IN  IF valid = <<>>
           THEN /\ loc' = [loc EXCEPT ![t] = [start EXCEPT
                              !.res = Raised("ValueError: No valid rules to import")]]
                /\ UNCHANGED <<rules, rules_cache, file>>
           ELSE \E outcome \in PersistOutcomes :
                  /\ file' = Persisted(file, valid, outcome)
                  /\ IF outcome # "ok"
                     THEN /\ loc' = [loc EXCEPT ![t] = [start EXCEPT
                                        !.persist = outcome, !.res = Raised("OSError")]]
                          /\ UNCHANGED <<rules, rules_cache>>
                     ELSE /\ rules' = valid
                          /\ IF rules_cache.shape = "id"
                             THEN /\ rules_cache' = EmptyCache
                                  /\ loc' = [loc EXCEPT ![t] = [start EXCEPT
                                                !.persist = outcome, !.res = Raised("KeyError")]]
                             ELSE /\ rules_cache' = MkCache("lang", valid)
                                  /\ loc' = [loc EXCEPT ![t] = [start EXCEPT
                                                !.persist = outcome,
                                                !.res = Returned("valid_rules")]]
    /\ Goto(t, "ret")
    /\ UNCHANGED <<analyzer, anonymizer, nlp_engine, initialized, lock, last_update,
                   serial, compiled_regex_cache>>

----------------------------------------------------------------------------
(* cleanup: the engines are dropped one after the other, then the caches are *)
(* cleared, and the flag is reset last                                       *)

CallCleanup(t) ==
    /\ CanCall(t)
    /\ loc' = [loc EXCEPT ![t] = StartLoc(t, "cleanup")]
    /\ Goto(t, "cl_nlp")
    /\ UNCHANGED <<rules, rules_cache, analyzer, anonymizer, nlp_engine, initialized,
                   lock, file, last_update, serial, compiled_regex_cache>>

\* self.nlp_engine = None
CleanupNlpEngine(t) ==
    /\ pc[t] = "cl_nlp"
    /\ nlp_engine' = FALSE
    /\ Goto(t, "cl_analyzer")
    /\ UNCHANGED <<rules, rules_cache, analyzer, anonymizer, initialized, lock, file,
                   last_update, loc, serial, compiled_regex_cache>>

\* self.analyzer = None
CleanupAnalyzer(t) ==
    /\ pc[t] = "cl_analyzer"
    /\ analyzer' = NoAnalyzer
    /\ Goto(t, "cl_anonymizer")
    /\ UNCHANGED <<rules, rules_cache, anonymizer, nlp_engine, initialized, lock, file,
                   last_update, loc, serial, compiled_regex_cache>>

\* self.anonymizer = None
CleanupAnonymizer(t) ==
    /\ pc[t] = "cl_anonymizer"
    /\ anonymizer' = FALSE
    /\ Goto(t, "cl_caches")
    /\ UNCHANGED <<rules, rules_cache, analyzer, nlp_engine, initialized, lock, file,
                   last_update, loc, serial, compiled_regex_cache>>

\* self.rules_cache.clear(); self._compiled_regex_cache.clear()
CleanupCaches(t) ==
    /\ pc[t] = "cl_caches"
    /\ rules_cache' = EmptyCache
    /\ compiled_regex_cache' = [compiled_regex_cache EXCEPT !.dict = {}]
    /\ Goto(t, "cl_flag")
    /\ UNCHANGED <<rules, analyzer, anonymizer, nlp_engine, initialized, lock, file,
                   last_update, loc, serial>>

\* self._initialized = False
CleanupFlag(t) ==
    /\ pc[t] = "cl_flag"
    /\ initialized' = FALSE
    /\ loc' = [loc EXCEPT ![t].res = Returned("None")]
    /\ Goto(t, "ret")
    /\ UNCHANGED <<rules, rules_cache, analyzer, anonymizer, nlp_engine, lock, file,
                   last_update, serial, compiled_regex_cache>>

CleanupSteps(t) ==
    \/ CleanupNlpEngine(t)
    \/ CleanupAnalyzer(t)
    \/ CleanupAnonymizer(t)
    \/ CleanupCaches(t)
    \/ CleanupFlag(t)

----------------------------------------------------------------------------
(* get_rule_by_id *)

\* the first rule of the cache by language with the id
FirstWithId(rs, id) == rs[CHOOSE i \in DOMAIN rs : rs[i].id = id /\ \A j \in 1..(i - 1) : rs[j].id # id]

\* get_rule_by_id: the search of update_rule, through self.rules_cache.items();
\* the rule found is returned, None when the loops end
GetRuleByIdResult(cache, id) ==
    CASE UpdateRuleSearch(cache, id) = "found" ->
             [Returned("rule") EXCEPT !.rules = <<FirstWithId(cache.rules, id)>>]
      [] UpdateRuleSearch(cache, id) = "not_found" -> Returned("None")
      [] OTHER -> Raised("AttributeError: 'str' object has no attribute 'get'")

GetRuleById(t, id) ==
    /\ CanCall(t)
    /\ loc' = [loc EXCEPT ![t] = [StartLoc(t, "get_rule_by_id") EXCEPT
                                     !.arg = <<id>>,
                                     !.res = GetRuleByIdResult(rules_cache, id)]]
    /\ Goto(t, "ret")
    /\ UNCHANGED <<rules, rules_cache, analyzer, anonymizer, nlp_engine, initialized,
                   lock, file, last_update, serial, compiled_regex_cache>>

----------------------------------------------------------------------------
(* delete_rule *)

\* self.rules_cache[language].pop(i): the rule leaves the cache list
RemoveRule(rs, id) ==
    LET Other(r) == ~(IsDict(r) /\ r.id = id)
    IN  SelectSeq(rs, Other)

\* how delete_rule ends: False when the search finds nothing, the
\* AttributeError of the search through a cache by id, and once the rule is
\* popped the TypeError of self._save_rules_to_file()
DeleteRuleResult(search) ==
    CASE search = "not_found" -> Returned("False")
      [] search = "raise" -> Raised("AttributeError: 'str' object has no attribute 'get'")
      [] search = "found" -> SaveRulesToFile

\* the rule is popped from the cache list only: self.rules is not touched
DeleteRule(t, id) ==
    /\ CanCall(t)
    /\ LET search == UpdateRuleSearch(rules_cache, id)
       IN  /\ rules_cache' = IF search = "found"
                             THEN MkCache("lang", RemoveRule(rules_cache.rules, id))
                             ELSE rules_cache
           /\ loc' = [loc EXCEPT ![t] = [StartLoc(t, "delete_rule") EXCEPT
                                            !.res = DeleteRuleResult(search),
                                            !.prev = UpdateRecord(id, FALSE, search)]]
    /\ Goto(t, "ret")
    /\ UNCHANGED <<rules, analyzer, anonymizer, nlp_engine, initialized, lock, file,
                   last_update, serial, compiled_regex_cache>>

----------------------------------------------------------------------------
(* The HTTP endpoints of update_rule and delete_rule (api/endpoints/pii.py) *)

\* the methods of the Services singleton
ServicesMethods == {"initialize", "cleanup"}

\* the names defined at the top level of api/endpoints/pii.py that the
\* endpoints use
EndpointModuleNames == {"get_services", "router", "logger"}

\* PUT /rules/{rule_id}: the status answered for the detector's outcome `res`;
\* get_services().get_pii_detector() comes first, and any exception gives 500
UpdateRuleEndpoint(res) ==
    IF "get_pii_detector" \notin ServicesMethods THEN 500
    ELSE IF res.status = "error" THEN 500
    ELSE IF res.value = "None" THEN 404
    ELSE 200

\* DELETE /rules/{rule_id}: the result of delete_rule is not looked at, and
\* any exception gives 500
DeleteRuleEndpoint(res) ==
    IF "pii_detector" \notin EndpointModuleNames THEN 500
    ELSE IF res.status = "error" THEN 500
    ELSE 200

----------------------------------------------------------------------------
(* _calculate_risk_level.  Scores are Python floats (IEEE 754 binary64).  A  *)
(* float in [1/8, 8) is held exactly as hi * 2^28 + lo in units of 2^-56,  *)
(* lo < 2^28; every operation rounds its exact result to 53 significant     *)
(* bits, ties to even, as the hardware does.  A score is written in         *)
(* hundredths; the float is the binary64 nearest to that decimal.           *)

Double(hi, lo) == [hi |-> hi, lo |-> lo]

LimbBase == 2^28

\* how many low bits of hi * 2^28 + lo lie below its 53 significant bits
DropBits(hi) == CHOOSE d \in 1..6 : hi \div 2^(24 + d) = 1

\* the binary64 nearest to hi * 2^28 + lo (+ a nonzero rest below, if sticky)
RoundDouble(hi, lo, sticky) ==
    LET q == 2^DropBits(hi)
        rest == lo % q
        half == q \div 2
        up == \/ rest > half
              \/ rest = half /\ (sticky \/ (lo \div q) % 2 = 1)
        lo2 == (lo - rest) + IF up THEN q ELSE 0
    IN  IF lo2 >= LimbBase THEN Double(hi + 1, lo2 - LimbBase) ELSE Double(hi, lo2)

\* float(c / 100) as the parser of a decimal literal gives it, 13 <= c < 800
ParseHundredths(c) ==
    LET t1 == (c % 100) * 2^14
        t2 == (t1 % 100) * 2^14
        t3 == (t2 % 100) * 2^14
        t4 == (t3 % 100) * 2^14
    IN  RoundDouble((c \div 100) * 2^28 + (t1 \div 100) * 2^14 + (t2 \div 100),
                    (t3 \div 100) * 2^14 + (t4 \div 100),
                    t4 % 100 # 0)

\* a + b on floats
FloatAdd(a, b) ==
    LET lo == a.lo + b.lo
    IN  RoundDouble(a.hi + b.hi + (lo \div LimbBase), lo % LimbBase, FALSE)

\* a / n on a float and an int
FloatDivInt(a, n) ==
    LET t == (a.hi % n) * LimbBase + a.lo
    IN  RoundDouble(a.hi \div n, t \div n, t % n # 0)

\* a > b on floats
FloatGreater(a, b) == a.hi > b.hi \/ (a.hi = b.hi /\ a.lo > b.lo)

\* sum(e["score"] for e in entities), entities not empty: 0 + the first score
\* is that score, the others are added from left to right
RECURSIVE FloatSumTo(_, _)
FloatSumTo(entities, n) ==
    IF n = 1 THEN ParseHundredths(entities[1].score)
    ELSE FloatAdd(FloatSumTo(entities, n - 1), ParseHundredths(entities[n].score))

\* the thresholds 0.8 and 0.6, in hundredths
HighScore == 80

MediumScore == 60

CalculateRiskLevel(entities) ==
    IF entities = <<>> THEN "low"
    ELSE LET avg_score == FloatDivInt(FloatSumTo(entities, Len(entities)), Len(entities))
             unique_categories == Cardinality({entities[i].category : i \in DOMAIN entities})
         IN  IF FloatGreater(avg_score, ParseHundredths(HighScore)) /\ unique_categories > 2
             THEN "high"
             ELSE IF FloatGreater(avg_score, ParseHundredths(MediumScore))
                     \/ unique_categories > 1
                  THEN "medium"
                  ELSE "low"

\* the entity lists given to _calculate_risk_level: score in hundredths, category
MaxEntities == 3

Scores == {40, 50, 65, 80, 81}

Categories == {"personal", "contact", "financial"}

Entities == [score : Scores, category : Categories]

EntityLists == UNION {[1..n -> Entities] : n \in 0..MaxEntities}

CallCalculateRiskLevel(t, entities) ==
    /\ CanCall(t)
    /\ loc' = [loc EXCEPT ![t] = [StartLoc(t, "risk") EXCEPT
                                     !.arg = entities,
                                     !.res = Returned(CalculateRiskLevel(entities))]]
    /\ Goto(t, "ret")
    /\ UNCHANGED <<rules, rules_cache, analyzer, anonymizer, nlp_engine, initialized,
                   lock, file, last_update, serial, compiled_regex_cache>>

----------------------------------------------------------------------------
(* _get_compiled_regex *)

\* re.compile(r"(?!)"): the pattern that matches nothing
MatchNothing == "(?!)"

\* a compiled pattern searched in a text
MatcherMatches(m, text) == m # MatchNothing /\ m \in text

\* a _get_compiled_regex that hands the pattern text on as it is
CompiledRegexUnguarded(pattern) == pattern

\* the body of _get_compiled_regex: the compiled pattern, or the pattern that
\* matches nothing when re.compile raises
CompiledRegex(pattern) == IF Compiles(pattern) THEN pattern ELSE MatchNothing

\* the pattern texts _get_compiled_regex is called with
Patterns == {"pa", "pb", "("}

\* lru_cache(maxsize=1000) on _get_compiled_regex
LruMaxSize == 1000

\* the entries of the lru_cache for a pattern
LruHits(lru, pattern) == {i \in DOMAIN lru : lru[i].pattern = pattern}

\* a hit: the entry becomes the most recently used
LruTouch(lru, pattern) ==
    LET i == CHOOSE k \in LruHits(lru, pattern) : TRUE
    IN  SelectSeq(lru, LAMBDA e : e.pattern # pattern) \o <<lru[i]>>

\* a miss: the result is stored, the least recently used entry leaves a full cache
LruStore(lru, entry) ==
    IF Len(lru) >= LruMaxSize THEN Append(Tail(lru), entry) ELSE Append(lru, entry)

\* _get_compiled_regex(pattern): lru_cache returns the result of an earlier
\* call with the same pattern; else the body runs: a pattern not in
\* self._compiled_regex_cache is compiled and stored there when it compiles,
\* and the entry of the dict is returned
GetCompiledRegex(t, pattern) ==
    /\ CanCall(t)
    /\ LET lru == compiled_regex_cache.lru
           hit == LruHits(lru, pattern) # {}
           result == IF hit THEN lru[CHOOSE k \in LruHits(lru, pattern) : TRUE].matcher
                     ELSE IF pattern \in compiled_regex_cache.dict THEN pattern
                     ELSE CompiledRegex(pattern)
       IN  /\ compiled_regex_cache' =
                 IF hit THEN [compiled_regex_cache EXCEPT !.lru = LruTouch(lru, pattern)]
                 ELSE [dict |-> IF Compiles(pattern)
                                THEN compiled_regex_cache.dict \cup {pattern}
                                ELSE compiled_regex_cache.dict,
                       lru |-> LruStore(lru, [pattern |-> pattern, matcher |-> result])]
           /\ loc' = [loc EXCEPT ![t] = [StartLoc(t, "_get_compiled_regex") EXCEPT
                                            !.arg = <<pattern>>,
                                            !.res = Returned(result)]]
    /\ Goto(t, "ret")
    /\ UNCHANGED <<rules, rules_cache, analyzer, anonymizer, nlp_engine, initialized,
                   lock, file, last_update, serial>>

----------------------------------------------------------------------------
(* CustomRuleRecognizer.analyze: texts are sequences of characters, positions *)
(* count from 0                                                                *)

MaxTextLen == 3

Chars == {"a", "b"}

CharTexts == UNION {[1..n -> Chars] : n \in 0..MaxTextLen}

\* rule.get('score', 0.7), in hundredths
DefaultScore == 70

\* the patterns of the rules: one character, a character repeated any number
\* of times, a pattern that does not compile, and the empty pattern
Lit(ch) == [kind |-> "lit", ch |-> ch]

Star(ch) == [kind |-> "star", ch |-> ch]

BadPattern == [kind |-> "bad", ch |-> "("]

EmptyPattern == [kind |-> "empty", ch |-> ""]

RecognizerRules ==
    {[name |-> "A", pattern |-> Lit("a")], [name |-> "S", pattern |-> Star("a")],
     [name |-> "C", pattern |-> BadPattern], [name |-> "E", pattern |-> EmptyPattern]}

\* how many times ch stands in text from position pos on
RECURSIVE RunLength(_, _, _)
RunLength(ch, text, pos) ==
    IF pos < Len(text) /\ text[pos + 1] = ch THEN 1 + RunLength(ch, text, pos + 1) ELSE 0

\* re.finditer of ch* from pos: the longest run at pos is a match, an empty one
\* when ch does not stand there; after an empty match the search must advance
RECURSIVE StarMatches(_, _, _, _)
StarMatches(ch, text, pos, must_advance) ==
    IF pos > Len(text) THEN <<>>
    ELSE LET run == RunLength(ch, text, pos)
         IN  IF run > 0 THEN <<(<<pos, pos + run>>)>> \o StarMatches(ch, text, pos + run, FALSE)
             ELSE IF must_advance THEN StarMatches(ch, text, pos + 1, FALSE)
             ELSE <<(<<pos, pos>>)>> \o StarMatches(ch, text, pos, TRUE)

\* re.finditer of one character: its occurrences from left to right
RECURSIVE LitMatches(_, _, _)
LitMatches(ch, text, pos) ==
    IF pos >= Len(text) THEN <<>>
    ELSE (IF text[pos + 1] = ch THEN <<(<<pos, pos + 1>>)>> ELSE <<>>)
             \o LitMatches(ch, text, pos + 1)

\* re.finditer(pattern, text): the spans of the matches
FindIter(pattern, text) ==
    IF pattern.kind = "star" THEN StarMatches(pattern.ch, text, 0, FALSE)
    ELSE LitMatches(pattern.ch, text, 0)

\* CustomRuleRecognizer.analyze: nothing for an empty pattern; re.finditer
\* raises on a pattern that does not compile and the except clause returns
\* the empty list; else one RecognizerResult per match
RecognizerAnalyze(rule, text) ==
    IF rule.pattern.kind \in {"empty", "bad"} THEN <<>>
    ELSE LET spans == FindIter(rule.pattern, text)
         IN  [i \in DOMAIN spans |->
                 [entity_type |-> rule.name, start |-> spans[i][1], end |-> spans[i][2],
                  score |-> DefaultScore]]

CallRecognizerAnalyze(t, rule, text) ==
    /\ CanCall(t)
    /\ loc' = [loc EXCEPT ![t] = [StartLoc(t, "analyze") EXCEPT
                                     !.arg = <<rule, text>>,
                                     !.res = Returned(RecognizerAnalyze(rule, text))]]
    /\ Goto(t, "ret")
    /\ UNCHANGED <<rules, rules_cache, analyzer, anonymizer, nlp_engine, initialized,
                   lock, file, last_update, serial, compiled_regex_cache>>

----------------------------------------------------------------------------
\* the call has returned to its caller
Return(t) ==
    /\ pc[t] = "ret"
    /\ Goto(t, "idle")
    /\ loc' = [loc EXCEPT ![t] = IdleLoc]
    /\ last_update' = IF loc[t].op = "update_rule" THEN last_update ELSE NoUpdate
    /\ UNCHANGED <<rules, rules_cache, analyzer, anonymizer, nlp_engine, initialized,
                   lock, file, serial, compiled_regex_cache>>

----------------------------------------------------------------------------
(* Specifications *)

DetectSteps(t) ==
    \/ InitializeLoad(t)
    \/ InitializeBuild(t)
    \/ DetectReadRules(t)
    \/ DetectStartScan(t)
    \/ DetectFinishScan(t)
    \/ Return(t)

UpdateRulesSteps(t) ==
    \/ UpdateRulesSwap(t)
    \/ UpdateRulesPersist(t)
    \/ UpdateRulesBuild(t)
    \/ UpdateRulesCache(t)
    \/ UpdateRulesRollback(t)

PreviewSteps(t) ==
    \/ PreviewAcquire(t)
    \/ PreviewAddAndCall(t)
    \/ PreviewFinally(t)

\* rule-set replacement against detection: update_rules, reload and detect_pii
\* run by concurrent threads
Next ==
    \E t \in Threads :
        \/ CallReload(t)
        \/ \E text \in Texts : CallDetect(t, text)
        \/ \E batch \in FewBatches : CallUpdateRules(t, batch)
        \/ DetectSteps(t)
        \/ UpdateRulesSteps(t)

Spec == InitConcurrent /\ [][Next]_vars

\* preview against readers: preview_config, detect_pii and get_rules run by
\* concurrent threads
NextPreview ==
    \E t \in Threads :
        \/ \E text \in Texts : CallDetect(t, text)
        \/ \E text \in PreviewTexts, custom \in PreviewInputs : CallPreview(t, text, custom)
        \/ GetRules(t)
        \/ DetectSteps(t)
        \/ PreviewSteps(t)

SpecPreview == InitConcurrent /\ [][NextPreview]_vars

\* single-rule updates against detection: update_rule and detect_pii run by
\* concurrent threads
NextUpdate ==
    \E t \in Threads :
        \/ \E text \in Texts : CallDetect(t, text)
        \/ \E id \in UpdateIds, enabled \in BOOLEAN : UpdateRule(t, id, enabled)
        \/ DetectSteps(t)

SpecUpdate == InitConcurrent /\ [][NextUpdate]_vars

\* every operation, the calls served one at a time
NextSerial ==
    \E t \in Threads :
        \/ CallReload(t)
        \/ \E text \in Texts : CallDetect(t, text)
        \/ \E batch \in Batches : CallUpdateRules(t, batch)
        \/ \E text \in PreviewTexts, custom \in PreviewInputs : CallPreview(t, text, custom)
        \/ GetRules(t)
        \/ \E id \in UpdateIds, enabled \in BOOLEAN : UpdateRule(t, id, enabled)
        \/ DetectSteps(t)
        \/ UpdateRulesSteps(t)
        \/ PreviewSteps(t)

SpecSerial == InitSerial /\ [][NextSerial]_vars

\* rules with patterns that do not compile: the batches that hold one, and one
\* that does not
RegexBatches == {<<RuleBad, RuleB>>, <<RuleA>>}

\* compiled patterns and detection, served one at a time
NextRegex ==
    \E t \in Threads :
        \/ \E pattern \in Patterns : GetCompiledRegex(t, pattern)
        \/ \E batch \in RegexBatches : CallUpdateRules(t, batch)
        \/ \E text \in Texts : CallDetect(t, text)
        \/ \E text \in PreviewTexts, custom \in PreviewInputs : CallPreview(t, text, custom)
        \/ DetectSteps(t)
        \/ UpdateRulesSteps(t)
        \/ PreviewSteps(t)

SpecRegex == InitSerial /\ [][NextRegex]_vars

\* a detector that has compiled the patterns "1" .. "n", in this order
Compiled(n) ==
    [dict |-> {ToString(i) : i \in 1..n},
     lru |-> [i \in 1..n |-> [pattern |-> ToString(i), matcher |-> ToString(i)]]]

\* the pattern texts looked up next: old ones, and ones not yet compiled
NumberedPatterns == {ToString(i) : i \in {1, 2, LruMaxSize, LruMaxSize + 1, LruMaxSize + 2}}

\* a new detector, or one that has compiled one pattern less than the
\* lru_cache holds
InitCache ==
    /\ \E n \in {0, LruMaxSize - 1} : ConstructedWith(Compiled(n))
    /\ file \in InitialFiles
    /\ serial = TRUE

\* pattern lookups one after the other
NextCache ==
    \E t \in Threads :
        \/ \E pattern \in NumberedPatterns : GetCompiledRegex(t, pattern)
        \/ Return(t)

SpecCache == InitCache /\ [][NextCache]_vars

\* one recognizer scanning one text
NextRecognizer ==
    \E t \in Threads :
        \/ \E rule \in RecognizerRules, text \in CharTexts : CallRecognizerAnalyze(t, rule, text)
        \/ Return(t)

SpecRecognizer == InitSerial /\ [][NextRecognizer]_vars

\* cleanup against reload and detection, run by concurrent threads
NextCleanup ==
    \E t \in Threads :
        \/ CallCleanup(t)
        \/ CallReload(t)
        \/ \E text \in Texts : CallDetect(t, text)
        \/ CleanupSteps(t)
        \/ DetectSteps(t)

SpecCleanup == InitConcurrent /\ [][NextCleanup]_vars

\* first use: detect_pii and reload by concurrent threads on a detector that
\* has just been constructed
NextInit ==
    \E t \in Threads :
        \/ CallReload(t)
        \/ \E text \in Texts : CallDetect(t, text)
        \/ DetectSteps(t)

SpecInit == InitConcurrent /\ [][NextInit]_vars

\* the batches of concurrent update_rules calls: one without a valid rule, two
\* that differ
RollbackBatches == {<<RuleIncomplete>>, <<RuleA>>, <<RuleAoff, RuleB>>}

\* update_rules calls run by concurrent threads
NextRollback ==
    \E t \in Threads :
        \/ \E batch \in RollbackBatches : CallUpdateRules(t, batch)
        \/ UpdateRulesSteps(t)
        \/ Return(t)

SpecRollback == InitConcurrent /\ [][NextRollback]_vars

\* custom_rules of the previews that run against other holders of the lock:
\* none, and a list that _add_temp_rules raises on
LockPreviewInputs == {<<>>, <<Junk>>}

\* the update_rules batches of these runs: one that raises before the lock is
\* taken, one that takes it
LockBatches == {<<RuleIncomplete>>, <<RuleA>>}

\* the operations that take the lock, run by concurrent threads
NextLock ==
    \E t \in Threads :
        \/ \E batch \in LockBatches : CallUpdateRules(t, batch)
        \/ \E text \in PreviewTexts, custom \in LockPreviewInputs : CallPreview(t, text, custom)
        \/ \E batch \in FewBatches : BulkImportRules(t, batch)
        \/ UpdateRulesSteps(t)
        \/ PreviewSteps(t)
        \/ Return(t)

\* thread t takes the lock
Acquire(t) == UpdateRulesSwap(t) \/ PreviewAcquire(t)

\* thread t goes on with the call it is in, the lock not being needed
Progress(t) ==
    \/ UpdateRulesPersist(t)
    \/ UpdateRulesBuild(t)
    \/ UpdateRulesCache(t)
    \/ UpdateRulesRollback(t)
    \/ PreviewAddAndCall(t)
    \/ PreviewFinally(t)
    \/ Return(t)

\* a thread in a call keeps running, and a thread waiting for a lock that is
\* released again and again gets it
SpecLock ==
    /\ InitConcurrent
    /\ [][NextLock]_vars
    /\ \A t \in Threads : WF_vars(Progress(t)) /\ SF_vars(Acquire(t))

\* single-rule mutations served one at a time: update_rule and delete_rule,
\* after reload, update_rules and detect_pii
NextMutate ==
    \E t \in Threads :
        \/ CallReload(t)
        \/ \E text \in Texts : CallDetect(t, text)
        \/ \E batch \in FewBatches : CallUpdateRules(t, batch)
        \/ \E id \in UpdateIds, enabled \in BOOLEAN : UpdateRule(t, id, enabled)
        \/ \E id \in UpdateIds : DeleteRule(t, id)
        \/ GetRules(t)
        \/ DetectSteps(t)
        \/ UpdateRulesSteps(t)

SpecMutate == InitSerial /\ [][NextMutate]_vars

\* _calculate_risk_level on every entity list
NextRisk ==
    \E t \in Threads :
        \/ \E entities \in EntityLists : CallCalculateRiskLevel(t, entities)
        \/ Return(t)

SpecRisk == InitSerial /\ [][NextRisk]_vars

\* the rule store: initialize (by reload and by detect_pii), load_rules,
\* update_rules and get_rules, the calls served one at a time
InitStore ==
    /\ Constructed
    /\ file \in StoreFiles
    /\ serial = TRUE

NextStore ==
    \E t \in Threads :
        \/ CallReload(t)
        \/ LoadRules(t)
        \/ \E text \in Texts \cup FailingTexts : CallDetect(t, text)
        \/ \E batch \in StoreBatches : CallUpdateRules(t, batch)
        \/ GetRules(t)
        \/ DetectSteps(t)
        \/ UpdateRulesSteps(t)

SpecStore == InitStore /\ [][NextStore]_vars

\* the writers and the reader of the rules file, served one at a time
NextFile ==
    \E t \in Threads :
        \/ LoadRules(t)
        \/ \E batch \in StoreBatches : CallUpdateRules(t, batch)
        \/ \E batch \in FewBatches : CallSaveRulesToFile(t, batch)
        \/ InitializeDefaultRules(t)
        \/ \E batch \in FewBatches : BulkImportRules(t, batch)
        \/ GetRules(t)
        \/ UpdateRulesSteps(t)
        \/ Return(t)

SpecFile == InitStore /\ [][NextFile]_vars

\* lookups by id between the operations that write the rule cache, served one
\* at a time
NextLookup ==
    \E t \in Threads :
        \/ LoadRules(t)
        \/ \E batch \in FewBatches : CallUpdateRules(t, batch)
        \/ \E id \in UpdateIds, enabled \in BOOLEAN : UpdateRule(t, id, enabled)
        \/ \E id \in UpdateIds : DeleteRule(t, id)
        \/ \E id \in UpdateIds : GetRuleById(t, id)
        \/ GetRules(t)
        \/ UpdateRulesSteps(t)
        \/ Return(t)

SpecLookup == InitStore /\ [][NextLookup]_vars

----------------------------------------------------------------------------
(* Claims *)

AtReturn(t, op) == pc[t] = "ret" /\ loc[t].op = op

\* C1: every detect_pii call that returns a result worked from one rule set:
\* the rule list it read for the entity filter, the rule list its analyzer was
\* built from and the rule list it read for is_custom are the same list.
C1_DetectSeesOneRuleSet ==
    \A t \in Threads :
        (AtReturn(t, "detect") /\ loc[t].res.status = "ok") =>
            /\ loc[t].d_an.rules = loc[t].d_rules
            /\ (loc[t].res.entities # {} => loc[t].res.rules = loc[t].d_rules)

\* C2: when preview_config has returned or raised, the rule list, the rules
\* file and the analyzer are what they were at the call.
C2_PreviewLeavesStateUnchanged ==
    \A t \in Threads :
        AtReturn(t, "preview") =>
            /\ rules = loc[t].pre.rules
            /\ file = loc[t].pre.file
            /\ analyzer = loc[t].pre.analyzer

\* a preview that appended temporary rules to a rule list with rules in it has ended
C2_Witness ==
    \E t \in Threads :
        /\ AtReturn(t, "preview")
        /\ loc[t].pre.taken
        /\ loc[t].batch # <<>>
        /\ loc[t].res.status = "error"
        /\ rules # <<>>

\* C3: no detect_pii and no get_rules call observes a temporary rule of a
\* preview: none meets a PIIRule object in self.rules, none returns one.
C3_TempRulesInvisible ==
    \A t \in Threads :
        loc[t].op \in {"detect", "get_rules"} =>
            /\ loc[t].res.err # NoGet
            /\ AllDicts(loc[t].res.rules)

\* C4: when update_rules has raised because persisting failed, the rule list and
\* the analyzer are those from before the call and the file still holds what it
\* held before the call.
C4_PersistFailureRollsBack ==
    \A t \in Threads :
        (AtReturn(t, "update_rules") /\ loc[t].persist \in {"open_fails", "write_fails"}) =>
            /\ loc[t].res.status = "error"
            /\ rules = loc[t].pre.rules
            /\ analyzer = loc[t].pre.analyzer
            /\ file = loc[t].pre.file

\* C5: update_rules with a batch of which no rule survives validation raises and
\* leaves the rule list, the rule cache, the analyzer and the file unchanged.
C5_EmptyBatchChangesNothing ==
    \A t \in Threads :
        (AtReturn(t, "update_rules") /\ ValidRules(loc[t].batch) = <<>>) =>
            /\ loc[t].res.status = "error"
            /\ rules = loc[t].pre.rules
            /\ rules_cache = loc[t].pre.cache
            /\ analyzer = loc[t].pre.analyzer
            /\ file = loc[t].pre.file

PatternCompiles(r) == Compiles(r.pattern)

\* C6: after a successful update_rules with a batch that holds a rule whose
\* pattern does not compile, the rule list is the batch's valid rules with a
\* pattern that compiles, and the registry holds no recognizer for another rule.
C6_InvalidPatternRejected ==
    \A t \in Threads :
        (/\ AtReturn(t, "update_rules")
         /\ loc[t].res.status = "ok"
         /\ \E i \in DOMAIN loc[t].batch : ~PatternCompiles(loc[t].batch[i])) =>
            /\ rules = SelectSeq(ValidRules(loc[t].batch), PatternCompiles)
            /\ \A i \in DOMAIN Recognizers(analyzer) :
                   PatternCompiles(Recognizers(analyzer)[i])

\* C7: every update_rule and every detect_pii call ends without raising, and
\* when an update_rule call on a rule of the rule list has ended (no other
\* update of the same id with it), the rule list and the file hold its update.
C7_ConcurrentUpdatesApplied ==
    \A t \in Threads :
        /\ (pc[t] = "ret" /\ loc[t].op \in {"update_rule", "detect"}) =>
               loc[t].res.status = "ok"
        /\ (/\ AtReturn(t, "update_rule")
            /\ \A u \in Threads \ {t} :
                   ~(AtReturn(u, "update_rule") /\ loc[u].prev.id = loc[t].prev.id)) =>
               \A i \in DOMAIN rules :
                   rules[i].id = loc[t].prev.id =>
                       /\ rules[i].enabled = loc[t].prev.enabled
                       /\ file.kind = "ok"
                       /\ \E j \in DOMAIN file.rules :
                              /\ file.rules[j].id = loc[t].prev.id
                              /\ file.rules[j].enabled = loc[t].prev.enabled

\* a mutation is between its first and its last write of the in-memory rule
\* state (self.rules, self.analyzer, self.rules_cache, self._initialized)
InSwapSection(t) ==
    \/ loc[t].op = "reload" /\ pc[t] \in {"init_load", "init_build"}
    \/ loc[t].op = "update_rules" /\ pc[t] \in {"ur_write", "ur_build", "ur_cache"}

\* C8: the swap sections of two rule mutations never overlap.
C8_SwapSectionsNeverOverlap ==
    \A t, u \in Threads : (t # u /\ InSwapSection(t)) => ~InSwapSection(u)

MatchedOnlyBy(text, id) ==
    \E i \in DOMAIN rules : rules[i].id = id /\ text = {rules[i].pattern}

\* C10: the detect_pii that follows update_rule(id, enabled: false), on a text
\* matched only by that rule, returns no entities and is_safe.
C10_DisabledRuleNoLongerMatches ==
    \A t \in Threads :
        (/\ AtReturn(t, "detect")
         /\ loc[t].prev.was_enabled
         /\ ~loc[t].prev.enabled
         /\ MatchedOnlyBy(loc[t].text, loc[t].prev.id)) =>
            /\ loc[t].res.status = "ok"
            /\ loc[t].res.is_safe

\* no call is in progress
Quiescent == \A t \in Threads : pc[t] = "idle"

\* C11: whenever no call is in progress and the analyzer has been built, the
\* registry holds a custom recognizer for exactly the enabled rules of the rule
\* list; and after a successful update_rules a disabled rule of the batch has
\* no recognizer and is in the rule list and in the file.
C11_RegistryHoldsEnabledRules ==
    /\ (Quiescent /\ analyzer.set) => Recognizers(analyzer) = SelectSeq(rules, IsEnabled)
    /\ \A t \in Threads :
           (AtReturn(t, "update_rules") /\ loc[t].res.status = "ok") =>
               \A i \in DOMAIN loc[t].valid :
                   ~IsEnabled(loc[t].valid[i]) =>
                       /\ loc[t].valid[i] \in Range(rules)
                       /\ loc[t].valid[i] \in Range(file.rules)
                       /\ loc[t].valid[i] \notin Range(Recognizers(analyzer))

\* the sum of the scores, in hundredths
RECURSIVE ScoreSum(_, _)
ScoreSum(entities, n) == IF n = 0 THEN 0 ELSE ScoreSum(entities, n - 1) + entities[n].score

\* the risk level by the average and the number of distinct categories
ExpectedRisk(entities) ==
    LET n == Len(entities)
        total == ScoreSum(entities, n)
        categories == Cardinality({entities[i].category : i \in DOMAIN entities})
    IN  IF n = 0 THEN "low"
        ELSE IF total > HighScore * n /\ categories > 2 THEN "high"
        ELSE IF total > MediumScore * n \/ categories > 1 THEN "medium"
        ELSE "low"

\* C12: _calculate_risk_level returns low for no entity, else high when the
\* average score is above 0.8 with more than 2 categories, else medium when
\* the average is above 0.6 or there is more than 1 category, else low; an
\* average of exactly 0.8 or exactly 0.6 is not above the threshold.
C12_RiskLevelByThresholds ==
    \A t \in Threads :
        AtReturn(t, "risk") => loc[t].res.value = ExpectedRisk(loc[t].arg)

\* C13: a detect_pii call made while the detector is not initialized does not
\* run initialize, and ends with the error EngineNotInitialized, not a result.
C13_DetectBeforeInitializeFails ==
    \A t \in Threads :
        (loc[t].op = "detect" /\ loc[t].pre.taken /\ ~loc[t].pre.initialized) =>
            /\ pc[t] \notin {"init_load", "init_build"}
            /\ pc[t] = "ret" =>
                   (loc[t].res.status = "error" /\ loc[t].res.err = "EngineNotInitialized")

\* the types the custom recognizers of the analyzer report on the text
CustomMatches(an, text) ==
    {Recognizers(an)[i].name :
        i \in {j \in DOMAIN Recognizers(an) : RecognizerMatches(Recognizers(an)[j], text)}}

\* C14: a detect_pii whose scan met a failure of the statistical recognizer
\* reports a DetectionError and still returns the matches of the custom
\* recognizers; the detector state is as before the call.
C14_RecognizerFailureKeepsCustomMatches ==
    \A t \in Threads :
        (/\ AtReturn(t, "detect")
         /\ loc[t].d_an.set
         /\ StatisticalRecognizerFails(loc[t].text)) =>
            /\ loc[t].res.err = "DetectionError"
            /\ loc[t].res.entities = CustomMatches(loc[t].d_an, loc[t].text)
            /\ loc[t].pre.initialized =>
                   (rules = loc[t].pre.rules /\ analyzer = loc[t].pre.analyzer)

\* C15: load_rules returns without raising and, when the file is missing,
\* not JSON or of another shape, leaves the rule list empty; initialize then
\* goes on, and detection works with the predefined recognizers only.
C15_LoadRulesNeverFatal ==
    \A t \in Threads :
        /\ AtReturn(t, "load_rules") =>
               /\ loc[t].res.status = "ok"
               /\ loc[t].pre.file.kind # "ok" => rules = <<>>
        /\ (AtReturn(t, "reload") /\ loc[t].pre.file.kind # "ok") =>
               /\ loc[t].res.value = "True"
               /\ rules = <<>>
               /\ analyzer = MkAnalyzer(<<>>)
               /\ initialized
        /\ (/\ AtReturn(t, "detect")
            /\ ~loc[t].pre.initialized
            /\ loc[t].pre.file.kind # "ok"
            /\ ~StatisticalRecognizerFails(loc[t].text)) =>
               /\ loc[t].res.status = "ok"
               /\ loc[t].res.entities = loc[t].text \cap PredefinedEntities

\* a detection that initialized the detector from a file of another shape has
\* found an entity of a predefined type
C15_Witness ==
    \E t \in Threads :
        /\ AtReturn(t, "detect")
        /\ ~loc[t].pre.initialized
        /\ loc[t].pre.file.kind = "badshape"
        /\ loc[t].res.status = "ok"
        /\ loc[t].res.entities = {"EMAIL_ADDRESS"}

\* the call was made with an id that no rule of the rule list has
UnknownId(t) == \A i \in DOMAIN loc[t].pre.rules : loc[t].pre.rules[i].id # loc[t].prev.id

\* C16: update_rule and delete_rule on an id that is not in the rule list
\* return not-found (None, False), the endpoint answers not-found, and the
\* rule list, the rule cache and the file are unchanged.
C16_UnknownIdIsNotFound ==
    \A t \in Threads :
        (pc[t] = "ret" /\ loc[t].op \in {"update_rule", "delete_rule"} /\ UnknownId(t)) =>
            /\ loc[t].res.status = "ok"
            /\ loc[t].res.value = (IF loc[t].op = "update_rule" THEN "None" ELSE "False")
            /\ (IF loc[t].op = "update_rule" THEN UpdateRuleEndpoint(loc[t].res)
                                             ELSE DeleteRuleEndpoint(loc[t].res)) = 404
            /\ rules = loc[t].pre.rules
            /\ rules_cache = loc[t].pre.cache
            /\ file = loc[t].pre.file

\* the operations that write the rules file
FileWriters == {"save_rules_to_file", "update_rules", "bulk_import_rules",
                "initialize_default_rules"}

\* C17: an operation that has written the rules file has written the object
\* with the keys version, last_updated and rules; and load_rules reads a bare
\* array and the wrapped object back to the rule list in it.
C17_FileIsWrappedObject ==
    \A t \in Threads :
        /\ (pc[t] = "ret" /\ loc[t].op \in FileWriters /\ loc[t].persist = "ok") =>
               (file.kind = "ok" /\ file.keys = WrappedKeys)
        /\ (AtReturn(t, "load_rules") /\ loc[t].pre.file.kind = "ok") =>
               rules = loc[t].pre.file.rules

UniqueIds(rs) == \A i, j \in DOMAIN rs : rs[i].id = rs[j].id => i = j

\* C18: whenever no operation is in progress, no two rules of the rule list
\* have the same id.
C18_RuleIdsUnique == Quiescent => UniqueIds(rules)

\* the operations that change the rule set
RuleMutations == {"add_rule", "update_rule", "delete_rule", "update_rules",
                  "bulk_import_rules"}

\* thread t is about to build a registry and an analyzer from self.rules
BuildsRegistry(t) == pc[t] \in {"init_build", "ur_build"} /\ AllDicts(rules)

\* the rule list the registry was built from is not the current one
RegistryStale == ~analyzer.set \/ analyzer.rules # rules

ScannedWithBadPattern(t) ==
    \E i \in DOMAIN Recognizers(loc[t].d_an) : ~Compiles(Recognizers(loc[t].d_an)[i].pattern)

\* the names of the rules of the registry whose pattern occurs in the text
NamesFound(t) ==
    LET recs == Recognizers(loc[t].d_an)
    IN  {recs[i].name : i \in {j \in DOMAIN recs : /\ Compiles(recs[j].pattern)
                                                    /\ recs[j].pattern \in loc[t].text}}

HeldPatterns(c) == c.dict \cup {c.lru[i].pattern : i \in DOMAIN c.lru}

\* C21: the caches of the detector together never hold the compiled patterns
\* of more than 1000 pattern texts, and the entry that leaves the full cache
\* when a new pattern is compiled is the least recently used one.
C21_AtMostThousandPatterns ==
    [][/\ Cardinality(HeldPatterns(compiled_regex_cache')) <= LruMaxSize
       /\ \A p \in HeldPatterns(compiled_regex_cache) \ HeldPatterns(compiled_regex_cache') :
              p = compiled_regex_cache.lru[1].pattern]_vars

\* C22: a pattern text that has a compiled pattern in self._compiled_regex_cache
\* keeps it: no operation removes an entry of the cache, and a lookup of a
\* text that is in the cache returns the compiled pattern of that text.
C22_CacheEntriesStay ==
    [][/\ compiled_regex_cache.dict \subseteq compiled_regex_cache'.dict
       /\ \A t \in Threads :
              (AtReturn(t, "_get_compiled_regex")' /\ pc[t] = "idle"
                 /\ loc'[t].arg[1] \in compiled_regex_cache.dict) =>
                    loc'[t].res.value = loc'[t].arg[1]]_vars

\* C23: every result of CustomRuleRecognizer.analyze lies in the text and has
\* a length, 0 <= start < end <= len(text), and carries the entity type of
\* the rule and its confidence.
C23_ResultSpansInText ==
    \A t \in Threads :
        AtReturn(t, "analyze") =>
            \A i \in DOMAIN loc[t].res.value :
                LET r == loc[t].res.value[i]
                IN  /\ 0 <= r.start
                    /\ r.start < r.end
                    /\ r.end <= Len(loc[t].arg[2])
                    /\ r.entity_type = loc[t].arg[1].name
                    /\ r.score = DefaultScore

\* the category the entity type has by the rules and the table: that of the
\* enabled rule named so, else that of the table, else "other"
ExpectedCategory(rs, e) ==
    LET named == {i \in DOMAIN rs : IsDict(rs[i]) /\ IsEnabled(rs[i]) /\ rs[i].name = e}
    IN  IF named # {} THEN RuleCategory(rs[CHOOSE i \in named : TRUE])
        ELSE IF e \in DOMAIN StatisticalCategories THEN StatisticalCategories[e]
        ELSE "other"

\* C24: every entity detect_pii reports has the category of the enabled rule
\* of its type, else the category the table gives its type, else "other".
C24_CategoryFromRule ==
    \A t \in Threads :
        (AtReturn(t, "detect") /\ loc[t].res.status = "ok") =>
            \A e \in loc[t].res.entities :
                <<e, ExpectedCategory(loc[t].res.rules, e)>> \in loc[t].res.categories

\* update_rules of thread u has returned True and the rule list, the cache and
\* the analyzer it installed are in place
InstalledBy(u) ==
    /\ AtReturn(u, "update_rules")
    /\ loc[u].res.value = "True"
    /\ rules = loc[u].valid
    /\ rules_cache = IdCache(loc[u].valid)
    /\ analyzer = MkAnalyzer(loc[u].valid)

\* C25: the rollback of a failing update_rules leaves the rule list, the rule
\* cache and the analyzer alone when they are the ones another update_rules
\* call, given other rules, has installed and returned True for.
C25_RollbackUndoesOwnChangesOnly ==
    [][\A t \in Threads :
          (/\ pc[t] = "ur_rollback"
           /\ pc'[t] # pc[t]
           /\ \E u \in Threads \ {t} : InstalledBy(u) /\ loc[u].valid # loc[t].valid) =>
              /\ rules' = rules
              /\ rules_cache' = rules_cache
              /\ analyzer' = analyzer]_vars

WithId(rs, id) == {rs[i] : i \in {j \in DOMAIN rs : rs[j].id = id}}

\* C27: get_rule_by_id returns the rule with the id for every rule of the
\* rule list that get_rules returns, enabled or not, and None for every other
\* id; it does not raise.
C27_LookupFindsEveryRule ==
    \A t \in Threads :
        AtReturn(t, "get_rule_by_id") =>
            /\ loc[t].res.status = "ok"
            /\ WithId(rules, loc[t].arg[1]) # {} =>
                  /\ loc[t].res.value = "rule"
                  /\ loc[t].res.rules[1] \in WithId(rules, loc[t].arg[1])
            /\ WithId(rules, loc[t].arg[1]) = {} => loc[t].res.value = "None"

\* C28: in every state a detector whose _initialized flag is set has its
\* analyzer and its anonymizer, and no detect_pii ends on a call of a missing
\* analyzer or anonymizer.
C28_InitializedHasAnalyzer ==
    /\ initialized => (analyzer.set /\ anonymizer)
    /\ \A t \in Threads : AtReturn(t, "detect") => loc[t].res.err # NoneCall

\* thread t is at a with self._lock statement
Waiting(t) == pc[t] \in {"ur_lock", "pv_lock"}

InInitialize(t) == pc[t] \in {"init_load", "init_build"}

\* thread t enters self.analyzer.analyze in this step
StartsScan(t) == pc[t] = "d_analyze" /\ pc'[t] = "scanning"

\* C30: of the callers that find the detector not initialized only one runs
\* initialize (two detect_pii calls are never inside initialize together),
\* and no caller enters a scan while another caller is inside initialize,
\* between load_rules and the assignment of the new analyzer
C30_InitializeOnceNoScanMeanwhile ==
    /\ [](\A t, u \in Threads :
            (t # u /\ InInitialize(t) /\ InInitialize(u))
                => (loc[t].op = "reload" \/ loc[u].op = "reload"))
    /\ [][\A t, u \in Threads :
            (t # u /\ StartsScan(t)) => ~InInitialize(u)]_vars

====
